---- MODULE Spec2Model ----
(***************************************************************************)
(* Approximate Riemann solvers for Burgers' equation q_t + (q^2/2)_x = 0   *)
(* and the first-order (classic) finite-volume run that consumes them, as  *)
(* described and driven by Burgers_approximate.ipynb.                      *)
(*                                                                         *)
(* Cell values are exact rationals <<n, d>> in lowest terms with d > 0.    *)
(* The value <<0, 0>> is the undefined result of a division by zero; it    *)
(* propagates through every arithmetic operation and compares false.       *)
(***************************************************************************)
EXTENDS Integers, Sequences, FiniteSets

\* ---------------------------------------------------------------- bounds
\* Riemann data are drawn from [-MaxQ, MaxQ].
MaxQ == 2
\* Number of grid cells of a run (the argument N of setup).
NumCells == 4
\* Number of time steps a run is followed for.
MaxSteps == 2

\* ------------------------------------------------------ exact arithmetic
Abs(n) == IF n < 0 THEN -n ELSE n

Euclid[a \in Nat, b \in Nat] == IF b = 0 THEN a ELSE Euclid[b, a % b]

GCD(a, b) == Euclid[a, b]

\* The element of a one-element set: Only({e(x) : x \in {v}}) is e(v) with
\* v computed once.
Only(S) == CHOOSE r \in S : TRUE

NaN == <<0, 0>>

IsNaN(a) == a[2] = 0

Norm(n, d) ==
    IF d = 0 THEN NaN
    ELSE LET g == GCD(Abs(n), Abs(d))
             sg == IF d < 0 THEN -1 ELSE 1
         IN  <<sg * (n \div g), Abs(d) \div g>>

Rat(n) == <<n, 1>>

Zero == Rat(0)

One == Rat(1)

LCM(a, b) == (a \div GCD(a, b)) * b

RAdd(a, b) ==
    IF IsNaN(a) \/ IsNaN(b) THEN NaN
    ELSE LET l == LCM(a[2], b[2])
         IN  Norm(a[1] * (l \div a[2]) + b[1] * (l \div b[2]), l)

RNeg(a) == <<-a[1], a[2]>>

RSub(a, b) == RAdd(a, RNeg(b))

RMul(a, b) ==
    IF IsNaN(a) \/ IsNaN(b) THEN NaN
    ELSE LET g1 == GCD(Abs(a[1]), b[2])
             g2 == GCD(Abs(b[1]), a[2])
         IN  Norm((a[1] \div g1) * (b[1] \div g2), (a[2] \div g2) * (b[2] \div g1))

RDiv(a, b) ==
    IF IsNaN(a) \/ IsNaN(b) \/ b[1] = 0 THEN NaN
    ELSE RMul(a, Norm(b[2], b[1]))

RHalf(a) == RMul(<<1, 2>>, a)

RLess(a, b) ==
    /\ ~IsNaN(a)
    /\ ~IsNaN(b)
    /\ LET l == LCM(a[2], b[2])
       IN  a[1] * (l \div a[2]) < b[1] * (l \div b[2])

RLeq(a, b) == ~IsNaN(a) /\ ~IsNaN(b) /\ ~RLess(b, a)

RMin(a, b) == IF RLess(b, a) THEN b ELSE a

RMax(a, b) == IF RLess(a, b) THEN b ELSE a

RAbs(a) == <<Abs(a[1]), a[2]>>

\* (xc<=0) and (xc>0) are booleans used as the numbers 1 and 0.
BoolNum(b) == IF b THEN One ELSE Zero

\* ------------------------------------------------------------- the flux
\* Mutant of f: the factor 1/2 is dropped.
FluxWithoutHalf(q) == RMul(q, q)

\* f(q) = q^2 / 2
f(q) == RHalf(RMul(q, q))

\* ------------------------------------------------- single-wave solver
\* The Rankine-Hugoniot quotient (f(q_r) - f(q_l)) / (q_r - q_l).
RankineHugoniotSpeed(ql, qr) == RDiv(RSub(f(qr), f(ql)), RSub(qr, ql))

\* Mutant of RoeSpeed: the speed is evaluated as the quotient itself.
RoeSpeedByQuotient(ql, qr) == RankineHugoniotSpeed(ql, qr)

\* Mutant of RoeSpeed: the upwind state is taken instead of the average.
RoeSpeedUpwind(ql, qr) == ql

\* Speed of the single wave: the Roe average q_hat = (q_r + q_l)/2.
RoeSpeed(ql, qr) == RHalf(RAdd(qr, ql))

\* One wave W = q_r - q_l travelling at the Roe speed.
RoeWaves(ql, qr) ==
    << [strength |-> RSub(qr, ql), speed |-> RoeSpeed(ql, qr)] >>

\* ------------------------------------------------------ full HLL solver
HLLSpeed1(ql, qr) == RMin(ql, qr)

\* Mutant of HLLSpeed2: the minimum is taken for both speeds.
HLLSpeed2Min(ql, qr) == RMin(ql, qr)

HLLSpeed2(ql, qr) == RMax(ql, qr)

\* Mutant of HLLMiddle: the sonic point is taken as the middle state.
HLLMiddleSonic(ql, qr) == Zero

\* Closed form of the intermediate state, q_m = (q_r + q_l)/2.
HLLMiddle(ql, qr) == RHalf(RAdd(qr, ql))

HLLWaves(ql, qr) ==
    LET qm == HLLMiddle(ql, qr)
    IN  << [strength |-> RSub(qm, ql), speed |-> HLLSpeed1(ql, qr)],
           [strength |-> RSub(qr, qm), speed |-> HLLSpeed2(ql, qr)] >>

\* ---------------------------------------------------------- entropy fix
\* Mutant of Transonic: the comparisons are not strict.
TransonicNotStrict(ql, qr) == RLeq(ql, Zero) /\ RLeq(Zero, qr)

\* Transonic rarefaction: q_l < 0 < q_r.
Transonic(ql, qr) == RLess(ql, Zero) /\ RLess(Zero, qr)

\* The sonic point q_s = 0 is taken as the middle state q_m.
SonicPoint == Zero

\* Mutant of EfixWaves: the speeds are q_l and q_r instead of their halves.
EfixWavesFullSpeed(ql, qr) ==
    << [strength |-> RNeg(ql), speed |-> ql],
       [strength |-> qr, speed |-> qr] >>

\* Mutant of EfixWaves: the two speeds are exchanged.
EfixWavesSwapped(ql, qr) ==
    << [strength |-> RNeg(ql), speed |-> RHalf(qr)],
       [strength |-> qr, speed |-> RHalf(ql)] >>

EfixWaves(ql, qr) ==
    LET qm == SonicPoint
    IN  << [strength |-> RSub(qm, ql), speed |-> RHalf(RAdd(ql, qm))],
           [strength |-> RSub(qr, qm), speed |-> RHalf(RAdd(qm, qr))] >>

\* ------------------------------------------------------ solver dispatch
Solvers == {"Roe", "HLL"}

Waves(ql, qr, rs, ef) ==
    IF ef /\ Transonic(ql, qr) THEN EfixWaves(ql, qr)
    ELSE IF rs = "HLL" THEN HLLWaves(ql, qr)
    ELSE RoeWaves(ql, qr)

RECURSIVE SumSeq(_)
SumSeq(s) == IF s = <<>> THEN Zero ELSE RAdd(Head(s), SumSeq(Tail(s)))

\* Contribution of one wave to the left-going fluctuation: min(s, 0) * W.
LeftGoing(w) == RMul(RMin(w.speed, Zero), w.strength)

\* Contribution of one wave to the right-going fluctuation: max(s, 0) * W.
RightGoing(w) == RMul(RMax(w.speed, Zero), w.strength)

Amdq(ws) == SumSeq([k \in 1..Len(ws) |-> LeftGoing(ws[k])])

Apdq(ws) == SumSeq([k \in 1..Len(ws) |-> RightGoing(ws[k])])

\* solve_riemann(q_left, q_right, params) -> waves, speeds, amdq, apdq
solve_riemann(ql, qr, rs, ef) ==
    LET ws == Waves(ql, qr, rs, ef)
    IN  [wave  |-> [k \in 1..Len(ws) |-> ws[k].strength],
         s     |-> [k \in 1..Len(ws) |-> ws[k].speed],
         amdq  |-> Amdq(ws),
         apdq  |-> Apdq(ws)]

\* Mutant of NumericalFlux: the branches are exchanged.
NumericalFluxDownwind(ql, qr) ==
    IF RLess(Zero, RHalf(RAdd(qr, ql))) THEN RHalf(RMul(qr, qr))
    ELSE RHalf(RMul(ql, ql))

\* Numerical flux of the single-wave solver: F = f(q_l) if s > 0,
\* F = f(q_r) if s < 0; for s = 0 the stationary value f(q_l) (= f(q_r)).
NumericalFlux(ql, qr) ==
    LET s == RoeSpeed(ql, qr)
    IN  IF RLess(Zero, s) THEN f(ql)
        ELSE IF RLess(s, Zero) THEN f(qr)
        ELSE f(ql)

\* ------------------------------------------------------------ the state
VARIABLES
    q_l,      \* left state of the Riemann data
    q_r,      \* right state of the Riemann data
    efix,     \* problem_data['efix']
    rsolver,  \* configured Riemann solver strategy
    pc,       \* "call"/"returned" for a single solve; "idle"/"solving" for a run
    rp,       \* result of the single Riemann solve
    q,        \* state.q[0,:], the cell averages of the run
    qoff,     \* cell averages of the run of the same data made with efix=False
    qold,     \* boundary-extended pre-step array (ghost cells 0 and NumCells+1)
    qnew,     \* buffer the fluctuations of the current step are accumulated in
    solved,   \* interfaces of the current step already solved
    dtdx,     \* dt/dx of the current step
    nsteps,   \* steps completed
    bflux,    \* accumulated boundary-flux terms -(dt/dx)(F_right - F_left)
    tube      \* the Euler run: the driver's call, state.q, the step in progress

vars == <<q_l, q_r, efix, rsolver, pc, rp, q, qoff, qold, qnew, solved, dtdx,
          nsteps, bflux, tube>>

burgersVars == <<q_l, q_r, efix, rsolver, pc, rp, q, qoff, qold, qnew, solved,
                 dtdx, nsteps, bflux>>

Cells == 1..NumCells

\* Interface j lies between cell j and cell j+1 of the extended array.
Interfaces == 0..NumCells

\* -------------------------------------------------------------- the grid
\* Centre of cell i of pyclaw.Dimension(-1.0, 1.0, N): -1 + (i - 1/2) * 2/N.
xc(i) == RAdd(Rat(-1), Norm(2 * i - 1, NumCells))

\* state.q[0,:] = (xc<=0)*q_l + (xc>0)*q_r
InitialCondition(ql, qr) ==
    [i \in Cells |->
        RAdd(RMul(BoolNum(RLeq(xc(i), Zero)), ql),
             RMul(BoolNum(RLess(Zero, xc(i))), qr))]

\* Mutant of WithGhost: the ghost cells hold zero.
WithGhostZero(qq) ==
    [i \in 0..(NumCells + 1) |->
        IF i = 0 \/ i = NumCells + 1 THEN Zero ELSE qq[i]]

\* bc_lower = bc_upper = extrap: each ghost cell copies the adjacent cell.
WithGhost(qq) ==
    [i \in 0..(NumCells + 1) |->
        IF i = 0 THEN qq[1]
        ELSE IF i = NumCells + 1 THEN qq[NumCells]
        ELSE qq[i]]

RECURSIVE SumCells(_, _)
SumCells(qq, n) == IF n = 0 THEN Zero ELSE RAdd(qq[n], SumCells(qq, n - 1))

Total(qq) == SumCells(qq, NumCells)

\* ----------------------------------------------------- the classic step
\* Largest |speed| over the waves of all interfaces of the extended array.
RECURSIVE MaxAbs(_)
MaxAbs(s) == IF s = <<>> THEN Zero ELSE RMax(RAbs(Head(s)), MaxAbs(Tail(s)))

RECURSIVE MaxSpeedUpTo(_, _, _, _)
MaxSpeedUpTo(g, j, rs, ef) ==
    LET m == MaxAbs(solve_riemann(g[j], g[j + 1], rs, ef).s)
    IN  IF j = 0 THEN m ELSE RMax(m, MaxSpeedUpTo(g, j - 1, rs, ef))

MaxSpeed(qq, rs, ef) == MaxSpeedUpTo(WithGhost(qq), NumCells, rs, ef)

\* max(|speed|) * dt/dx <= 1
CFLok(qq, r, rs, ef) == RLeq(RMul(MaxSpeed(qq, rs, ef), r), One)

\* The step sizes the driver may choose from.
StepSizes == {Norm(1, k) : k \in 1..MaxQ}

\* Each cell accumulates -(dt/dx)(apdq of its left interface + amdq of its
\* right interface).
ClassicStep(qq, r, rs, ef) ==
    LET g == WithGhost(qq)
    IN  [i \in Cells |->
            RSub(g[i],
                 RMul(r, RAdd(solve_riemann(g[i - 1], g[i], rs, ef).apdq,
                              solve_riemann(g[i], g[i + 1], rs, ef).amdq)))]

\* Mutant of SolveInput: the solve reads the buffer being written.
SolveInputInPlace(old, buf, j) == <<buf[j], buf[j + 1]>>

\* The two states the solve of interface j reads: the pre-step array.
SolveInput(old, buf, j) == <<old[j], old[j + 1]>>

\* Scatter the fluctuations of interface j into the buffer.
Accumulate(buf, j, r, res) ==
    [i \in Cells |->
        IF i = j /\ i = j + 1 THEN buf[i]
        ELSE IF i = j THEN RSub(buf[i], RMul(r, res.amdq))
        ELSE IF i = j + 1 THEN RSub(buf[i], RMul(r, res.apdq))
        ELSE buf[i]]

NoResult == [wave |-> <<>>, s |-> <<>>, amdq |-> Zero, apdq |-> Zero]

\* ---------------------------------------- the Euler shock tube and blast wave
\* gamma = 1.4
gamma == <<7, 5>>

\* Number of cells of the shock-tube runs of the driver (N=50).
ShockTubeN == 50

\* Indices of the conserved variables in state.q and of the primitive
\* variables in q_l, q_r (density, momentum, energy; density, velocity,
\* pressure).
density == 1

momentum == 2

energy == 3

VAdd(a, b) == [k \in 1..3 |-> RAdd(a[k], b[k])]

VSub(a, b) == [k \in 1..3 |-> RSub(a[k], b[k])]

VScale(c, a) == [k \in 1..3 |-> RMul(c, a[k])]

VZero == <<Zero, Zero, Zero>>

\* p = (gamma - 1)(E - rho u^2 / 2) with u = momentum / rho
Pressure(qv) ==
    LET u == RDiv(qv[momentum], qv[density])
    IN  RMul(RSub(gamma, One),
             RSub(qv[energy], RHalf(RMul(qv[density], RMul(u, u)))))

\* Euler.conservative_to_primitive(rho, mom, E) -> (rho, u, p)
conservative_to_primitive(rho, mom, E) ==
    <<rho, RDiv(mom, rho), Pressure(<<rho, mom, E>>)>>

\* Centre of cell i of pyclaw.Dimension(-1.0, 1.0, n).
TubeXc(i, n) == RAdd(Rat(-1), Norm(2 * i - 1, n))

\* (xc<=0)*l + (xc>0)*r
LeftRight(i, n, l, r) ==
    RAdd(RMul(BoolNum(RLeq(TubeXc(i, n), Zero)), l),
         RMul(BoolNum(RLess(Zero, TubeXc(i, n))), r))

\* state.q as shocktube(q_l, q_r, N) fills it: q_l[1], q_r[1] are taken as
\* velocity, q_l[2], q_r[2] as pressure, q_l[0], q_r[0] as density.
TubeInitialCondition(ql, qr, n) ==
    [i \in 1..n |->
        LET velocity == LeftRight(i, n, ql[2], qr[2])
            pressure == LeftRight(i, n, ql[3], qr[3])
            rho == LeftRight(i, n, ql[1], qr[1])
        IN  <<rho,
              RMul(velocity, rho),
              RAdd(RDiv(pressure, RSub(gamma, One)),
                   RMul(RHalf(rho), RMul(velocity, velocity)))>>]

\* The Euler solver computes in finite precision: square roots are rounded
\* up to a multiple of 1/SqrtGrid, every other number it returns or keeps is
\* rounded to the nearest multiple of 1/Precision.
SqrtGrid == 4

Precision == SqrtGrid * SqrtGrid

Fl(x) ==
    IF IsNaN(x) THEN NaN
    ELSE LET whole == x[1] \div x[2]
             rest == x[1] - whole * x[2]
         IN  Norm(whole * Precision + (2 * rest * Precision + x[2]) \div (2 * x[2]),
                  Precision)

VFl(a) == [k \in 1..3 |-> Fl(a[k])]

\* The cell centres of the blast wave are compared with 0.1 and 0.9, which
\* a centre can meet but for rounding, so they are kept as the doubles the
\* program computes: [m |-> the 53 bits of the mantissa, first bit 1,
\* e |-> exponent], standing for m * 2^e.
Bit == 0..1

MantissaBits == 53

\* The next k binary digits of r / n, for r < n.
Expand[n \in Nat, r \in Nat, k \in Nat] ==
    IF k = 0 THEN <<>>
    ELSE IF 2 * r >= n THEN <<1>> \o Expand[n, 2 * r - n, k - 1]
         ELSE <<0>> \o Expand[n, 2 * r, k - 1]

\* The remainder left after k digits.
Remainder[n \in Nat, r \in Nat, k \in Nat] ==
    IF k = 0 THEN r
    ELSE IF 2 * r >= n THEN Remainder[n, 2 * r - n, k - 1]
         ELSE Remainder[n, 2 * r, k - 1]

\* The number of zero digits of r / n before its first digit 1, for 0 < r < n.
LeadingZeros[n \in Nat, r \in Nat] == IF 2 * r >= n THEN 0 ELSE 1 + LeadingZeros[n, 2 * r]

\* A bit string plus one; the carry out of the first bit is dropped.
Increment[b \in Seq(Bit)] ==
    IF b = <<>> THEN <<>>
    ELSE IF b[Len(b)] = 0 THEN SubSeq(b, 1, Len(b) - 1) \o <<1>>
         ELSE Increment[SubSeq(b, 1, Len(b) - 1)] \o <<0>>

Zeros[k \in Nat] == IF k = 0 THEN <<>> ELSE <<0>> \o Zeros[k - 1]

\* Round to nearest, ties to even: the double nearest to b * 2^e (+ a
\* positive amount below one unit of b when sticky), b a bit string with
\* first bit 1.
Nearest(b, sticky, e) ==
    IF Len(b) <= MantissaBits
    THEN [m |-> b \o Zeros[MantissaBits - Len(b)], e |-> e - (MantissaBits - Len(b))]
    ELSE LET keep == SubSeq(b, 1, MantissaBits)
             below == SubSeq(b, MantissaBits + 2, Len(b))
             up == /\ b[MantissaBits + 1] = 1
                   /\ \/ sticky
                      \/ \E k \in 1..Len(below) : below[k] = 1
                      \/ keep[MantissaBits] = 1
             drop == Len(b) - MantissaBits
         IN  IF ~up THEN [m |-> keep, e |-> e + drop]
             ELSE IF \A k \in 1..MantissaBits : keep[k] = 1
                  THEN [m |-> <<1>> \o Zeros[MantissaBits - 1], e |-> e + drop + 1]
                  ELSE [m |-> Increment[keep], e |-> e + drop]

\* The double a / n of two small positive integers, a < n.
FloatRatio(a, n) ==
    Only({Nearest(Expand[n, Remainder[n, a, z], MantissaBits + 1],
                  Remainder[n, a, z + MantissaBits + 1] > 0,
                  -(z + MantissaBits + 1)) :
          z \in {LeadingZeros[n, a]}})

\* The binary digits of a positive integer.
BitsOf[c \in Nat] == IF c = 0 THEN <<>> ELSE BitsOf[c \div 2] \o <<c % 2>>

\* The digits of b * k + carry, for a bit string b and small k.
Times[b \in Seq(Bit), k \in Nat, carry \in Nat] ==
    IF b = <<>> THEN BitsOf[carry]
    ELSE Times[SubSeq(b, 1, Len(b) - 1), k, (b[Len(b)] * k + carry) \div 2]
         \o <<(b[Len(b)] * k + carry) % 2>>

\* The double (k / 2) * x for an odd k, that is (i + 0.5) * x.
FloatTimesHalves(k, x) == Nearest(Times[x.m, k, 0], FALSE, x.e - 1)

\* x < y for two positive doubles.
FloatLess(x, y) ==
    \/ x.e < y.e
    \/ /\ x.e = y.e
       /\ \E k \in 1..MantissaBits :
              /\ x.m[k] < y.m[k]
              /\ \A j \in 1..(k - 1) : x.m[j] = y.m[j]

\* Centre of cell i of pyclaw.Dimension(0.0, 1.0, n): lower + (i + 0.5) * delta
\* with delta = (upper - lower) / n, i counted from 0.
BlastXc(i, n) == FloatTimesHalves(2 * i - 1, FloatRatio(1, n))

\* The energy blastwave gives a cell of centre x; tenth and nine are the
\* doubles 0.1 and 0.9.
BlastEnergy(x, tenth, nine) ==
    LET left == BoolNum(FloatLess(x, tenth))
        mid == RMul(BoolNum(~FloatLess(x, tenth)), BoolNum(FloatLess(x, nine)))
        right == BoolNum(~FloatLess(x, nine))
    IN  RDiv(RAdd(RAdd(RMul(left, Rat(1000)), RMul(mid, Norm(1, 100))),
                  RMul(right, Rat(100))),
             RSub(gamma, One))

\* state.q as blastwave(q_l, q_r, N) fills it; q_l and q_r are not used.
BlastInitialCondition(n) ==
    Only({[i \in 1..n |->
              Only({<<Rat(1), Zero, BlastEnergy(x, tenth, nine)>> :
                    x \in {BlastXc(i, n)}})] :
          tenth \in {FloatRatio(1, 10)}, nine \in {FloatRatio(9, 10)}})

\* A valid state: density > 0 and pressure >= 0.  NaN compares false, so a
\* state whose pressure is undefined is not valid.
Valid(qv) == RLess(Zero, qv[density]) /\ RLeq(Zero, Pressure(qv))

\* The Euler flux (rho u, rho u^2 + p, u (E + p)).
Velocity(qv) == Fl(RDiv(qv[momentum], qv[density]))

euler_flux(qv) ==
    LET u == Velocity(qv)
        p == Fl(Pressure(qv))
    IN  VFl(<<qv[momentum],
              RAdd(RMul(qv[momentum], u), p),
              RMul(u, RAdd(qv[energy], p))>>)

\* The least k in lo+1..hi with k * k >= m, given lo * lo < m <= hi * hi.
Bisect[m \in Nat, lo \in Nat, hi \in Nat] ==
    IF hi - lo <= 1 THEN hi
    ELSE IF ((lo + hi) \div 2) * ((lo + hi) \div 2) >= m
         THEN Bisect[m, lo, (lo + hi) \div 2]
         ELSE Bisect[m, (lo + hi) \div 2, hi]

\* The largest integer whose square TLC can compute.
SqrtMax == 46340

\* The square root of a number, first rounded to a multiple of 1/Precision,
\* rounded up to a multiple of 1/SqrtGrid; 0 for a negative number.
SqrtUp(x) ==
    IF IsNaN(x) THEN NaN
    ELSE Only({IF y[1] <= 0 THEN Zero
               ELSE Norm(Bisect[y[1] * (Precision \div y[2]), 0, SqrtMax], SqrtGrid) :
               y \in {Fl(x)}})

\* The sound speed c = sqrt(gamma p / rho).
SoundSpeed(qv) == SqrtUp(RDiv(RMul(gamma, Fl(Pressure(qv))), qv[density]))

\* HLL for the Euler equations: s1, s2 are the smallest and the largest of
\* u - c, u + c over both states, the middle state follows from
\* conservation; an invalid input state gives the error result, equal
\* states give zero-strength waves.
EulerError == [error |-> TRUE, amdq |-> VZero, apdq |-> VZero]

euler_hll(ql, qr) ==
    IF ~Valid(ql) \/ ~Valid(qr) THEN EulerError
    ELSE IF ql = qr THEN [error |-> FALSE, amdq |-> VZero, apdq |-> VZero]
    ELSE
        LET s1 == RMin(RSub(Velocity(ql), SoundSpeed(ql)),
                       RSub(Velocity(qr), SoundSpeed(qr)))
            s2 == RMax(RAdd(Velocity(ql), SoundSpeed(ql)),
                       RAdd(Velocity(qr), SoundSpeed(qr)))
            num == VAdd(VSub(VSub(euler_flux(qr), euler_flux(ql)),
                             VScale(s2, qr)),
                        VScale(s1, ql))
            qm == VFl(VScale(RDiv(One, RSub(s1, s2)), num))
            W1 == VSub(qm, ql)
            W2 == VSub(qr, qm)
        IN  [error |-> FALSE,
             amdq |-> VFl(VAdd(VScale(RMin(s1, Zero), W1),
                               VScale(RMin(s2, Zero), W2))),
             apdq |-> VFl(VAdd(VScale(RMax(s1, Zero), W1),
                               VScale(RMax(s2, Zero), W2)))]

\* Total specific enthalpy H = (E + p) / rho.
Enthalpy(qv) == Fl(RDiv(RAdd(qv[energy], Fl(Pressure(qv))), qv[density]))

\* Roe average of a quantity, weighted with the square roots of the
\* densities.
RoeAverage(wl, wr, al, ar) ==
    Fl(RDiv(RAdd(RMul(wl, al), RMul(wr, ar)), RAdd(wl, wr)))

\* Roe for the Euler equations: the jump q_r - q_l is projected on the
\* eigenvectors (1, u-c, H-uc), (1, u, u^2/2), (1, u+c, H+uc) of the flux
\* Jacobian at the Roe average; the speeds are u-c, u, u+c.
euler_roe(ql, qr) ==
    IF ~Valid(ql) \/ ~Valid(qr) THEN EulerError
    ELSE IF ql = qr THEN [error |-> FALSE, amdq |-> VZero, apdq |-> VZero]
    ELSE
        LET wl == SqrtUp(ql[density])
            wr == SqrtUp(qr[density])
            u == RoeAverage(wl, wr, Velocity(ql), Velocity(qr))
            H == RoeAverage(wl, wr, Enthalpy(ql), Enthalpy(qr))
            g1 == RSub(gamma, One)
            c == SqrtUp(RMul(g1, RSub(H, RHalf(RMul(u, u)))))
            d == VSub(qr, ql)
            a2 == Fl(RMul(RDiv(g1, RMul(c, c)),
                          RSub(RAdd(RMul(RSub(H, RMul(u, u)), d[1]), RMul(u, d[2])),
                               d[3])))
            a3 == Fl(RDiv(RSub(RAdd(d[2], RMul(RSub(c, u), d[1])), RMul(c, a2)),
                          RMul(Rat(2), c)))
            a1 == RSub(RSub(d[1], a2), a3)
            W1 == VFl(VScale(a1, <<One, RSub(u, c), RSub(H, RMul(u, c))>>))
            W2 == VFl(VScale(a2, <<One, u, RHalf(RMul(u, u))>>))
            W3 == VFl(VScale(a3, <<One, RAdd(u, c), RAdd(H, RMul(u, c))>>))
            s1 == RSub(u, c)
            s3 == RAdd(u, c)
        IN  [error |-> FALSE,
             amdq |-> VFl(VAdd(VAdd(VScale(RMin(s1, Zero), W1),
                                    VScale(RMin(u, Zero), W2)),
                               VScale(RMin(s3, Zero), W3))),
             apdq |-> VFl(VAdd(VAdd(VScale(RMax(s1, Zero), W1),
                                    VScale(RMax(u, Zero), W2)),
                               VScale(RMax(s3, Zero), W3)))]

\* if riemann_solver == 'Roe': rs = euler_roe_1D; elif riemann_solver ==
\* 'HLL': rs = euler_hll_1D.  Any other name leaves rs unbound, and the
\* next line of shocktube or blastwave raises UnboundLocalError.
EulerSolvers == {"Roe", "HLL"}

\* Names a caller may pass as riemann_solver.
SolverNames == EulerSolvers \cup {"LLF"}

euler_rs(rs, ql, qr) ==
    CASE rs = "Roe" -> euler_roe(ql, qr)
      [] rs = "HLL" -> euler_hll(ql, qr)

\* The largest |u| + c over the valid cells of an array, 1 when there is
\* none or when it is 0.
CellSpeeds(qq, n) ==
    {RAdd(RAbs(Velocity(qq[i])), SoundSpeed(qq[i])) : i \in {k \in 1..n : Valid(qq[k])}}

Largest(S) == IF S = {} THEN One ELSE CHOOSE a \in S : \A b \in S : RLeq(b, a)

MaxWaveSpeed(qq, n) == Only({Largest(S \ {Zero}) : S \in {CellSpeeds(qq, n)}})

\* BC.extrap at both ends of an array of n cells.
TubeGhost(qq, n) ==
    [i \in 0..(n + 1) |-> IF i = 0 THEN qq[1] ELSE IF i = n + 1 THEN qq[n] ELSE qq[i]]

\* One interface's contribution to the new buffer.
TubeAccumulate(buf, n, j, r, res) ==
    LET left == IF j >= 1
                THEN [buf EXCEPT ![j] = VSub(buf[j], VFl(VScale(r, res.amdq)))]
                ELSE buf
    IN  IF j + 1 <= n
        THEN [left EXCEPT ![j + 1] = VSub(left[j + 1], VFl(VScale(r, res.apdq)))]
        ELSE left

\* The array a step leaves behind: the new buffer when every interface was
\* solved, the old array when the step was rejected.
StepResult(old, buf, failed) == IF failed THEN old ELSE buf

\* The Euler run before a driver cell has been executed.
NoTube ==
    [pc |-> "none", problem |-> "shocktube", args |-> <<VZero, VZero>>, N |-> 0,
     riemann_solver |-> "HLL", q_l |-> VZero, q_r |-> VZero, q |-> <<>>,
     qold |-> <<>>, qnew |-> <<>>, next |-> 0, dtdx |-> Zero, nsteps |-> 0]

\* ------------------------------------------------- a single Riemann solve
\* Riemann data: the multiples of 1/2 in [-MaxQ, MaxQ].
Inputs == {Norm(k, 2) : k \in (-2 * MaxQ)..(2 * MaxQ)}

SolverInit ==
    /\ q_l \in Inputs
    /\ q_r \in Inputs
    /\ efix \in BOOLEAN
    /\ rsolver \in Solvers
    /\ pc = "call"
    /\ rp = NoResult
    /\ q = InitialCondition(q_l, q_r)
    /\ qoff = q
    /\ qold = WithGhost(q)
    /\ qnew = q
    /\ solved = {}
    /\ dtdx = Zero
    /\ nsteps = 0
    /\ bflux = Zero
    /\ tube = NoTube

SolveRiemann ==
    /\ pc = "call"
    /\ rp' = solve_riemann(q_l, q_r, rsolver, efix)
    /\ pc' = "returned"
    /\ UNCHANGED <<q_l, q_r, efix, rsolver, q, qoff, qold, qnew, solved, dtdx,
                   nsteps, bflux, tube>>

SolverNext == SolveRiemann

SolverSpec == SolverInit /\ [][SolverNext]_vars

\* ------------------------------------------------------------- the run
\* setup(q_l, q_r, N, efix): the single-wave Burgers solver, classic, order 1.
SetupData == {Rat(k) : k \in (-MaxQ)..MaxQ}

Init ==
    /\ q_l \in SetupData
    /\ q_r \in SetupData
    /\ efix \in BOOLEAN
    /\ rsolver = "Roe"
    /\ pc = "idle"
    /\ rp = NoResult
    /\ q = InitialCondition(q_l, q_r)
    /\ qoff = InitialCondition(q_l, q_r)
    /\ qold = WithGhost(q)
    /\ qnew = q
    /\ solved = {}
    /\ dtdx = Zero
    /\ nsteps = 0
    /\ bflux = Zero
    /\ tube = NoTube

\* The driver picks dt within the CFL bound; ghost cells are filled and the
\* new buffer starts as a copy of the old one.
BeginStep(r) ==
    /\ pc = "idle"
    /\ nsteps < MaxSteps
    /\ CFLok(q, r, rsolver, efix)
    /\ dtdx' = r
    /\ qold' = WithGhost(q)
    /\ qnew' = q
    /\ solved' = {}
    /\ pc' = "solving"
    /\ UNCHANGED <<q_l, q_r, efix, rsolver, rp, q, qoff, nsteps, bflux, tube>>

SolveInterface(j) ==
    /\ pc = "solving"
    /\ j \notin solved
    /\ LET in == SolveInput(qold, WithGhost(qnew), j)
           res == solve_riemann(in[1], in[2], rsolver, efix)
       IN  qnew' = Accumulate(qnew, j, dtdx, res)
    /\ solved' = solved \cup {j}
    /\ UNCHANGED <<q_l, q_r, efix, rsolver, pc, rp, q, qoff, qold, dtdx, nsteps,
                   bflux, tube>>

\* All interfaces solved: the buffers are swapped.
EndStep ==
    /\ pc = "solving"
    /\ solved = Interfaces
    /\ q' = qnew
    /\ qoff' = ClassicStep(qoff, dtdx, rsolver, FALSE)
    /\ bflux' = RSub(bflux,
                     RMul(dtdx,
                          RSub(NumericalFlux(qold[NumCells], qold[NumCells + 1]),
                               NumericalFlux(qold[0], qold[1]))))
    /\ nsteps' = nsteps + 1
    /\ pc' = "idle"
    /\ UNCHANGED <<q_l, q_r, efix, rsolver, rp, qold, qnew, solved, dtdx, tube>>

Next ==
    \/ \E r \in StepSizes : BeginStep(r)
    \/ \E j \in Interfaces : SolveInterface(j)
    \/ EndStep

Spec == Init /\ [][Next]_vars

\* ------------------------------------------------ the Euler driver cells
\* While an Euler run is followed, the Burgers run is not started.
BurgersAtRest ==
    /\ q_l = Zero
    /\ q_r = Zero
    /\ efix = FALSE
    /\ rsolver = "Roe"
    /\ pc = "idle"
    /\ rp = NoResult
    /\ q = InitialCondition(Zero, Zero)
    /\ qoff = q
    /\ qold = WithGhost(q)
    /\ qnew = q
    /\ solved = {}
    /\ dtdx = Zero
    /\ nsteps = 0
    /\ bflux = Zero

\* The arguments of the driver cells, (1., 0., 1.) and (1./8, 0., 1./10).
SodLeft == <<Rat(1), Zero, Rat(1)>>

SodRight == <<Norm(1, 8), Zero, Norm(1, 10)>>

\* Triples the driver may hand to Euler.conservative_to_primitive: the two
\* of the driver cells, a moving state, one with negative density and one
\* with negative energy.
DriverArgs ==
    {SodLeft, SodRight, <<Rat(1), Rat(1), Rat(1)>>, <<Rat(-1), Zero, Rat(1)>>,
     <<Rat(1), Zero, Rat(-1)>>}

\* The grid sizes of the driver cells: N=50 and N=1000 for the shock tube,
\* the default N=400 and N=2000 for the blast wave.
FineN == 1000

BlastN == 400

BlastFineN == 2000

\* A small blast-wave grid with cells in all three pressure regions.
BlastSmallN == 2 * NumCells + 2

\* A grid of which the centres of cell NumCells and of one later cell are 1/10
\* and 9/10 but for rounding.
BlastTieN == 5 * (2 * NumCells - 1)

Call(pr, a, b, n, rs) ==
    [NoTube EXCEPT !.pc = "driver", !.problem = pr, !.args = <<a, b>>, !.N = n,
                   !.riemann_solver = rs]

\* The calls of the driver cells (roe, hll, fine) ...
DriverCalls ==
    {Call("shocktube", SodLeft, SodRight, ShockTubeN, "Roe"),
     Call("shocktube", SodLeft, SodRight, ShockTubeN, "HLL"),
     Call("shocktube", SodLeft, SodRight, FineN, "Roe"),
     Call("blastwave", SodLeft, SodRight, BlastN, "Roe"),
     Call("blastwave", SodLeft, SodRight, BlastN, "HLL"),
     Call("blastwave", SodLeft, SodRight, BlastFineN, "Roe")}

\* ... and calls on small grids with other arguments.
SmallCalls ==
    {Call("shocktube", a, b, NumCells, rs) :
        a \in DriverArgs, b \in DriverArgs, rs \in SolverNames}
    \cup {Call("blastwave", SodLeft, SodRight, n, rs) :
              n \in {BlastSmallN, BlastTieN}, rs \in SolverNames}

EulerInit ==
    /\ BurgersAtRest
    /\ tube \in DriverCalls \cup SmallCalls

\* q_l = Euler.conservative_to_primitive(...); q_r likewise.
Convert ==
    /\ tube.pc = "driver"
    /\ tube' = [tube EXCEPT
                   !.pc = "call",
                   !.q_l = conservative_to_primitive(tube.args[1][1], tube.args[1][2],
                                                     tube.args[1][3]),
                   !.q_r = conservative_to_primitive(tube.args[2][1], tube.args[2][2],
                                                     tube.args[2][3])]
    /\ UNCHANGED burgersVars

\* shocktube(q_l, q_r, N, riemann_solver): with a solver name that binds no
\* rs the call raises before a solver or a state is built.
shocktube ==
    /\ tube.pc = "call"
    /\ tube.problem = "shocktube"
    /\ IF tube.riemann_solver \in EulerSolvers
       THEN tube' = [tube EXCEPT
                       !.pc = "idle",
                       !.q = TubeInitialCondition(tube.q_l, tube.q_r, tube.N)]
       ELSE tube' = [tube EXCEPT !.pc = "UnboundLocalError"]
    /\ UNCHANGED burgersVars

\* blastwave(q_l, q_r, N, riemann_solver)
blastwave ==
    /\ tube.pc = "call"
    /\ tube.problem = "blastwave"
    /\ IF tube.riemann_solver \in EulerSolvers
       THEN tube' = [tube EXCEPT !.pc = "idle", !.q = BlastInitialCondition(tube.N)]
       ELSE tube' = [tube EXCEPT !.pc = "UnboundLocalError"]
    /\ UNCHANGED burgersVars

\* ---------------------------------------------------------- claw.run()
\* The Courant numbers max|speed| dt/dx the driver may step with; the
\* scheme does not enforce the CFL bound itself.
CourantNumbers == {One, Rat(2 * MaxQ)}

TubeBeginStep(cfl) ==
    /\ tube.pc = "idle"
    /\ tube.nsteps < MaxSteps
    /\ tube' = [tube EXCEPT
                   !.pc = "solving",
                   !.qold = TubeGhost(tube.q, tube.N),
                   !.qnew = tube.q,
                   !.next = 0,
                   !.dtdx = RDiv(cfl, MaxWaveSpeed(tube.q, tube.N))]
    /\ UNCHANGED burgersVars

\* The next interface is solved; an error result ends the step at once.
TubeSolveInterface ==
    /\ tube.pc = "solving"
    /\ tube.next <= tube.N
    /\ \E res \in {euler_rs(tube.riemann_solver, tube.qold[tube.next],
                              tube.qold[tube.next + 1])} :
           IF res.error
           THEN tube' = [tube EXCEPT
                           !.pc = "error",
                           !.q = StepResult(tube.q, tube.qnew, TRUE)]
           ELSE tube' = [tube EXCEPT
                           !.qnew = TubeAccumulate(tube.qnew, tube.N, tube.next,
                                                   tube.dtdx, res),
                           !.next = tube.next + 1]
    /\ UNCHANGED burgersVars

TubeEndStep ==
    /\ tube.pc = "solving"
    /\ tube.next = tube.N + 1
    /\ tube' = [tube EXCEPT
                   !.pc = "idle",
                   !.q = StepResult(tube.q, tube.qnew, FALSE),
                   !.nsteps = tube.nsteps + 1]
    /\ UNCHANGED burgersVars

EulerNext ==
    \/ Convert
    \/ shocktube
    \/ blastwave
    \/ \E cfl \in CourantNumbers : TubeBeginStep(cfl)
    \/ TubeSolveInterface
    \/ TubeEndStep

EulerSpec == EulerInit /\ [][EulerNext]_vars

\* ------------------------------------------------------------ properties
\* The state q_l + W_1 + ... + W_k reached after the first k returned waves.
RECURSIVE StateAfter(_)
StateAfter(k) == IF k = 0 THEN q_l ELSE RAdd(StateAfter(k - 1), rp.wave[k])

\* Sum of speed_k * strength_k over the first k returned waves.
RECURSIVE FluxJumpUpTo(_)
FluxJumpUpTo(k) ==
    IF k = 0 THEN Zero
    ELSE RAdd(FluxJumpUpTo(k - 1), RMul(rp.s[k], rp.wave[k]))

NumWaves == Len(rp.wave)

Jump == RSub(q_r, q_l)

FluxDifference == RSub(f(q_r), f(q_l))

IsTransonicData == RLess(q_l, Zero) /\ RLess(Zero, q_r)

\* C1: every solver's wave decomposition is conservative: the strengths sum
\* to q_r - q_l and the sum of speed * strength is f(q_r) - f(q_l). The Roe
\* solver returns the single wave q_r - q_l at speed (q_l + q_r)/2, which is
\* the Rankine-Hugoniot quotient whenever q_l # q_r; the HLL solver returns
\* the speeds min and max around q_m = (q_l + q_r)/2.
C1_Conservation ==
    pc = "returned" =>
        /\ StateAfter(NumWaves) = q_r
        /\ FluxJumpUpTo(NumWaves) = FluxDifference
        /\ (rsolver = "Roe" /\ ~efix) =>
              /\ rp.wave = <<Jump>>
              /\ rp.s = <<RMul(<<1, 2>>, RAdd(q_l, q_r))>>
              /\ q_l # q_r => rp.s[1] = RankineHugoniotSpeed(q_l, q_r)
        /\ (rsolver = "HLL" /\ ~efix) =>
              /\ rp.s = <<RMin(q_l, q_r), RMax(q_l, q_r)>>
              /\ StateAfter(1) = RMul(<<1, 2>>, RAdd(q_l, q_r))

\* The Burgers shock q_l = 2, q_r = 1 solved by the Roe solver at speed 3/2.
C1_Witness ==
    /\ pc = "returned"
    /\ rsolver = "Roe"
    /\ q_l = Rat(2)
    /\ q_r = Rat(1)
    /\ rp.s = <<(<<3, 2>>)>>
    /\ rp.wave = <<Rat(-1)>>

\* Sum of speed * strength over the returned waves whose speed is negative.
RECURSIVE NegativeSpeedPart(_)
NegativeSpeedPart(k) ==
    IF k = 0 THEN Zero
    ELSE RAdd(NegativeSpeedPart(k - 1),
              IF RLess(rp.s[k], Zero) THEN RMul(rp.s[k], rp.wave[k]) ELSE Zero)

\* Sum of speed * strength over the returned waves whose speed is positive.
RECURSIVE PositiveSpeedPart(_)
PositiveSpeedPart(k) ==
    IF k = 0 THEN Zero
    ELSE RAdd(PositiveSpeedPart(k - 1),
              IF RLess(Zero, rp.s[k]) THEN RMul(rp.s[k], rp.wave[k]) ELSE Zero)

\* C2: for every solver variant amdq + apdq = f(q_r) - f(q_l), amdq being
\* the contribution of the waves of negative speed and apdq that of the
\* waves of positive speed.
C2_FluctuationSplit ==
    pc = "returned" =>
        /\ RAdd(rp.amdq, rp.apdq) = FluxDifference
        /\ rp.amdq = NegativeSpeedPart(NumWaves)
        /\ rp.apdq = PositiveSpeedPart(NumWaves)

\* A solve whose waves go both ways, with a nonzero flux difference.
C2_Witness ==
    /\ pc = "returned"
    /\ rp.amdq # Zero
    /\ rp.apdq # Zero
    /\ FluxDifference # Zero

\* C4: with the entropy fix on, the Burgers solver returns two waves exactly
\* when q_l < 0 < q_r: strengths -q_l and q_r, speeds q_l/2 < 0 < q_r/2,
\* the strengths summing to q_r - q_l; otherwise it returns the single wave.
C4_EntropyFixWaves ==
    (pc = "returned" /\ rsolver = "Roe" /\ efix) =>
        /\ NumWaves = 2 <=> IsTransonicData
        /\ NumWaves = 1 <=> ~IsTransonicData
        /\ IsTransonicData =>
              /\ rp.wave = <<RNeg(q_l), q_r>>
              /\ rp.s = <<RMul(<<1, 2>>, q_l), RMul(<<1, 2>>, q_r)>>
              /\ RLess(rp.s[1], Zero)
              /\ RLess(Zero, rp.s[2])
              /\ RAdd(rp.wave[1], rp.wave[2]) = Jump

\* The transonic data q_l = -1, q_r = 2 solved with the fix: speeds -1/2, 1.
C4_Witness ==
    /\ pc = "returned"
    /\ rsolver = "Roe"
    /\ efix
    /\ q_l = Rat(-1)
    /\ q_r = Rat(2)
    /\ rp.s = <<(<<-1, 2>>), Rat(1)>>
    /\ rp.wave = <<Rat(1), Rat(2)>>

IsFullHLL == pc = "returned" /\ rsolver = "HLL" /\ ~efix

\* The middle state the conservation condition
\* s1 (q_m - q_l) + s2 (q_r - q_m) = f(q_r) - f(q_l) determines.
MiddleFromConservation(s1, s2) ==
    RDiv(RSub(RSub(RMul(s2, q_r), RMul(s1, q_l)), FluxDifference),
         RSub(s2, s1))

\* C6: with s1 = min(q_l, q_r) and s2 = max(q_l, q_r) the HLL middle state
\* is (q_l + q_r)/2 whatever the values and signs, it is the state the
\* conservation condition determines whenever that condition determines one
\* (s1 # s2), and each of the two waves carries half of the jump.
C6_HLLMiddleState ==
    IsFullHLL =>
        /\ rp.s[1] = RMin(q_l, q_r)
        /\ rp.s[2] = RMax(q_l, q_r)
        /\ StateAfter(1) = RMul(<<1, 2>>, RAdd(q_l, q_r))
        /\ rp.s[1] # rp.s[2] =>
              StateAfter(1) = MiddleFromConservation(rp.s[1], rp.s[2])
        /\ rp.wave[1] = RMul(<<1, 2>>, Jump)
        /\ rp.wave[2] = RMul(<<1, 2>>, Jump)

\* A full HLL solve of states of opposite sign.
C6_Witness ==
    /\ IsFullHLL
    /\ q_l = Rat(-1)
    /\ q_r = Rat(2)
    /\ StateAfter(1) = <<1, 2>>
    /\ rp.wave = <<(<<3, 2>>), (<<3, 2>>)>>

\* C7 as stated: q_m satisfies the jump condition across each wave
\* separately, s1 (q_m - q_l) = f(q_m) - f(q_l) and
\* s2 (q_r - q_m) = f(q_r) - f(q_m).
C7_SeparateJumpConditions ==
    IsFullHLL =>
        /\ RMul(rp.s[1], rp.wave[1]) = RSub(f(StateAfter(1)), f(q_l))
        /\ RMul(rp.s[2], rp.wave[2]) = RSub(f(q_r), f(StateAfter(1)))

\* C7 amended: the two jump conditions hold with one common intermediate
\* flux F_m = f(q_l) + s1 (q_m - q_l) = f(q_r) - s2 (q_r - q_m) in the place
\* of f(q_m); with f(q_m) itself each of them holds only when q_l = q_r.
C7_CommonMiddleFlux ==
    IsFullHLL =>
        /\ RAdd(f(q_l), RMul(rp.s[1], rp.wave[1]))
              = RSub(f(q_r), RMul(rp.s[2], rp.wave[2]))
        /\ RMul(rp.s[1], rp.wave[1]) = RSub(f(StateAfter(1)), f(q_l))
              <=> q_l = q_r
        /\ RMul(rp.s[2], rp.wave[2]) = RSub(f(q_r), f(StateAfter(1)))
              <=> q_l = q_r

\* A full HLL solve whose middle flux F_m = 0 differs from f(q_m) = 1/2.
C7_Witness ==
    /\ IsFullHLL
    /\ q_l = Rat(0)
    /\ q_r = Rat(2)
    /\ RAdd(f(q_l), RMul(rp.s[1], rp.wave[1])) = Zero
    /\ f(StateAfter(1)) = <<1, 2>>

IsSingleWave == pc = "returned" /\ rsolver = "Roe" /\ NumWaves = 1

\* C8: for the single-wave solver the interface flux F = f(q_l) + amdq
\* = f(q_r) - apdq is the numerical flux of the sign rule: f(q_l) when
\* s > 0, f(q_r) when s < 0, and when s = 0 both candidates agree with F.
C8_InterfaceFlux ==
    IsSingleWave =>
        LET F == RAdd(f(q_l), rp.amdq)
            s == rp.s[1]
        IN  /\ F = RSub(f(q_r), rp.apdq)
            /\ F = NumericalFlux(q_l, q_r)
            /\ RLess(Zero, s) => F = f(q_l)
            /\ RLess(s, Zero) => F = f(q_r)
            /\ s = Zero => (f(q_l) = F /\ f(q_r) = F)

\* A stationary shock: s = 0 with a nonzero jump.
C8_Witness ==
    /\ IsSingleWave
    /\ rp.s[1] = Zero
    /\ q_l = Rat(1)
    /\ q_r = Rat(-1)
    /\ RAdd(f(q_l), rp.amdq) = <<1, 2>>

\* C9: for q_l = q_r every solver variant returns only zero-strength waves
\* and zero fluctuations, and no returned value is the result of a division
\* by zero.
C9_DegenerateInterface ==
    (pc = "returned" /\ q_l = q_r) =>
        /\ \A k \in 1..NumWaves : rp.wave[k] = Zero /\ ~IsNaN(rp.s[k])
        /\ rp.amdq = Zero
        /\ rp.apdq = Zero

\* A degenerate interface solved by the HLL solver with s1 = s2 = -3/2.
C9_Witness ==
    /\ pc = "returned"
    /\ q_l = q_r
    /\ rsolver = "HLL"
    /\ rp.s = <<(<<-3, 2>>), (<<-3, 2>>)>>
    /\ IsNaN(RankineHugoniotSpeed(q_l, q_r))

\* C3: after any number of classic steps with extrapolation ghost cells the
\* total of q over the interior cells is its initial total plus the
\* accumulated boundary-flux terms -(dt/dx)(F_right - F_left); the two
\* boundary interfaces carry no fluctuation and the interior ones cancel.
C3_DiscreteConservation ==
    /\ pc = "idle" =>
          Total(q) = RAdd(Total(InitialCondition(q_l, q_r)), bflux)
    /\ pc = "solving" =>
          \A j \in {0, NumCells} :
             LET res == solve_riemann(qold[j], qold[j + 1], rsolver, efix)
             IN  res.amdq = Zero /\ res.apdq = Zero

\* Two steps taken, with a net flux through the boundaries.
C3_Witness ==
    /\ pc = "idle"
    /\ nsteps >= 2
    /\ bflux # Zero
    /\ q # InitialCondition(q_l, q_r)
    /\ Total(q) # Total(InitialCondition(q_l, q_r))

\* C5: for every interface of a step that is not transonic (not
\* q_l < 0 < q_r) the solver with the entropy fix returns the same waves,
\* speeds, amdq and apdq as without it, and a run from data that is not
\* transonic has at every step the cell values of the run of the same data
\* and steps without the fix.
C5_NoEffectOutsideTransonic ==
    /\ pc = "solving" =>
          \A j \in Interfaces :
             ~(RLess(qold[j], Zero) /\ RLess(Zero, qold[j + 1])) =>
                solve_riemann(qold[j], qold[j + 1], rsolver, TRUE)
                   = solve_riemann(qold[j], qold[j + 1], rsolver, FALSE)
    /\ ~IsTransonicData => q = qoff

\* A run with the fix from the boundary case q_l = 0 < q_r, two steps in.
C5_Witness ==
    /\ efix
    /\ q_l = Zero
    /\ q_r = Rat(2)
    /\ pc = "idle"
    /\ nsteps >= 2
    /\ q # InitialCondition(q_l, q_r)
    /\ q = qoff

\* Fluctuation of interface j of the pre-step array going into its right
\* cell, once j is solved.
ApdqDone(j) ==
    IF j \in solved
    THEN solve_riemann(qold[j], qold[j + 1], rsolver, efix).apdq
    ELSE Zero

\* Fluctuation of interface j of the pre-step array going into its left
\* cell, once j is solved.
AmdqDone(j) ==
    IF j \in solved
    THEN solve_riemann(qold[j], qold[j + 1], rsolver, efix).amdq
    ELSE Zero

\* C10: during a step the cell array is not written and every solve reads
\* the pre-step array, so the buffer holds, whatever the order of the solves
\* made so far, the pre-step values less the fluctuations of the solved
\* interfaces, and once all are solved it is the step of the pre-step array.
C10_OrderIndependence ==
    pc = "solving" =>
        /\ qold = WithGhost(q)
        /\ \A i \in Cells :
              qnew[i] = RSub(qold[i],
                             RMul(dtdx, RAdd(ApdqDone(i - 1), AmdqDone(i))))
        /\ solved = Interfaces => qnew = ClassicStep(q, dtdx, rsolver, efix)

\* The second step, interface 2 solved before interface 1, buffer changed.
C10_Witness ==
    /\ pc = "solving"
    /\ nsteps = 1
    /\ 2 \in solved
    /\ 1 \notin solved
    /\ qnew # q

\* The cells in which two arrays differ.
CellsChanged(before, after) == {i \in Cells : after[i] # before[i]}

IsTransonicInterface(j) == RLess(qold[j], Zero) /\ RLess(Zero, qold[j + 1])

\* C13: at every transonic interface (q_l < 0 < q_r) of a step the unfixed
\* single-wave solver has amdq = 0 or apdq = 0, the other one being the whole
\* flux difference, so it changes at most one of the two adjacent cells; the
\* entropy-fixed solver has amdq = -q_l^2/2 # 0 and apdq = q_r^2/2 # 0 and
\* changes the left cell and the right cell, and no other.
C13_TransonicFrame ==
    pc = "solving" =>
        \A j \in Interfaces :
            IsTransonicInterface(j) =>
                LET plain == solve_riemann(qold[j], qold[j + 1], "Roe", FALSE)
                    fixed == solve_riemann(qold[j], qold[j + 1], "Roe", TRUE)
                IN  /\ plain.amdq = Zero \/ plain.apdq = Zero
                    /\ RAdd(plain.amdq, plain.apdq)
                          = RSub(f(qold[j + 1]), f(qold[j]))
                    /\ \/ CellsChanged(q, Accumulate(q, j, dtdx, plain)) \subseteq {j}
                       \/ CellsChanged(q, Accumulate(q, j, dtdx, plain)) \subseteq {j + 1}
                    /\ fixed.amdq = RNeg(RMul(<<1, 2>>, RMul(qold[j], qold[j])))
                    /\ fixed.apdq = RMul(<<1, 2>>, RMul(qold[j + 1], qold[j + 1]))
                    /\ fixed.amdq # Zero
                    /\ fixed.apdq # Zero
                    /\ CellsChanged(q, Accumulate(q, j, dtdx, fixed)) = {j, j + 1}

\* A step of a run with the fix in which a solved transonic interface has
\* changed both of its cells.
C13_Witness ==
    /\ pc = "solving"
    /\ efix
    /\ \E j \in solved :
          /\ IsTransonicInterface(j)
          /\ qnew[j] # q[j]
          /\ qnew[j + 1] # q[j + 1]

\* C14: with every step taken under max(|speed|) * dt/dx <= 1, every cell
\* value of the run stays within [min, max] of the initial cell values, with
\* and without the entropy fix.
C14_MaximumPrinciple ==
    \A i \in Cells :
        /\ RLeq(RMin(q_l, q_r), q[i])
        /\ RLeq(q[i], RMax(q_l, q_r))

\* Two steps of the unfixed solver from transonic data, a cell strictly
\* between the initial values.
C14_Witness ==
    /\ pc = "idle"
    /\ nsteps >= 2
    /\ ~efix
    /\ IsTransonicData
    /\ \E i \in Cells : RLess(q_l, q[i]) /\ RLess(q[i], q_r)

TubeCells == 1..tube.N

\* C12: the shock-tube run of the driver cell (arguments (1, 0, 1) and
\* (1/8, 0, 1/10), N = 50) has density 1, velocity 0, pressure 1 in every
\* cell with centre <= 0 and density 1/8, velocity 0, pressure 1/10 in every
\* cell with centre > 0, stored as (rho, rho u, p/(gamma-1) + rho u^2/2),
\* that is (1, 0, 5/2) and (1/8, 0, 1/4).
C12_SodInitialData ==
    (/\ tube.pc = "idle"
     /\ tube.nsteps = 0
     /\ tube.problem = "shocktube"
     /\ tube.args = <<SodLeft, SodRight>>
     /\ tube.N = ShockTubeN)
    => \A i \in TubeCells :
          IF RLeq(TubeXc(i, tube.N), Zero)
          THEN tube.q[i] = <<Rat(1), Zero, Norm(5, 2)>>
          ELSE tube.q[i] = <<Norm(1, 8), Zero, Norm(1, 4)>>

=============================================================================
